---- MODULE Spec2Model ----
(***************************************************************************)
(* Model of contrib/gen-golden.py: the golden image generator.             *)
(*                                                                         *)
(* The script resolves two font families through fc-match at import time,  *)
(* builds the SPECS table from the resolved paths, and main() then either  *)
(* lists the selected specs or renders each one and saves it under         *)
(* GOLDEN_DIR (and, with --preview, under /tmp/msdf_tests as well).        *)
(*                                                                         *)
(* One run of the script is one behaviour.  The file system before the     *)
(* run, the fonts present on the host, the outcome of the two fc-match     *)
(* queries and the command line are the inputs.  The process may be        *)
(* terminated between any two steps: termination changes no file, so every *)
(* reachable state is also a state an interrupted run can be left in.      *)
(***************************************************************************)
EXTENDS Integers, Sequences, FiniteSets, TLC

VARIABLES
    pc,              \* position of the script
    fontFiles,       \* host: the font files that exist on disk
    fcExit,          \* host: exit status of fc-match per family (-1 before the query)
    MONO_FONT,       \* module global, line 46
    SERIF_FONT,      \* module global, line 47
    stderr,          \* warnings printed by find_font
    stdout,          \* lines printed by the script
    args,            \* argparse namespace: preview, list, names
    specs,           \* main's local `specs`
    idx,             \* position of the for loops over specs (1-based)
    img,             \* main's local `img`
    dirs,            \* file system: the directories that exist
    fs,              \* file system: contents of every image path the script can name
    fs0,             \* history: fs as it was before the run
    log,             \* history: the image writes completed by this run, in order
    loaded,          \* history: the font paths handed to ImageFont.truetype
    error            \* the exception that ended the run, "none" otherwise

vars == <<pc, fontFiles, fcExit, MONO_FONT, SERIF_FONT, stderr, stdout, args,
          specs, idx, img, dirs, fs, fs0, log, loaded, error>>

----------------------------------------------------------------------------
(* Bounds *)

\* longest list of positional name filters tried
MaxNames == 2

\* the filter strings tried on the command line
FilterStrings == {"mono", "serif", "22px", "Mono"}

----------------------------------------------------------------------------
(* Strings.  TLC cannot look inside a string, so the characters of every    *)
(* string that takes part in a substring test are spelled out here.         *)

CharTable ==
    "golden_document_22px_mono" :>
        <<"g","o","l","d","e","n","_","d","o","c","u","m","e","n","t","_","2","2","p","x","_","m","o","n","o">> @@
    "golden_mm_22px_mono" :>
        <<"g","o","l","d","e","n","_","m","m","_","2","2","p","x","_","m","o","n","o">> @@
    "golden_hello_15px_mono" :>
        <<"g","o","l","d","e","n","_","h","e","l","l","o","_","1","5","p","x","_","m","o","n","o">> @@
    "golden_av_22px_serif" :>
        <<"g","o","l","d","e","n","_","a","v","_","2","2","p","x","_","s","e","r","i","f">> @@
    "golden_code_15px_mono" :>
        <<"g","o","l","d","e","n","_","c","o","d","e","_","1","5","p","x","_","m","o","n","o">> @@
    "mono" :>
        <<"m","o","n","o">> @@
    "serif" :>
        <<"s","e","r","i","f">> @@
    "22px" :>
        <<"2","2","p","x">> @@
    "Mono" :>
        <<"M","o","n","o">>

Chars(s) == CharTable[s]

\* Python's `n in name` on strings: n occurs in name at some offset,
\* compared character by character (case-sensitive).
StrIn(n, name) ==
    \E off \in 0..(Len(Chars(name)) - Len(Chars(n))) :
        \A k \in 1..Len(Chars(n)) : Chars(name)[off + k] = Chars(n)[k]

----------------------------------------------------------------------------
(* Font resolution *)

Families == {"monospace", "serif"}

\* what fc-match prints for each family on this host (the %{file} format),
\* before .strip(): the path, possibly followed by a newline
FcFile(family) ==
    IF family = "monospace" THEN "/usr/share/fonts/noto/NotoSansMono-Regular.ttf"
    ELSE "/usr/share/fonts/noto/NotoSerif-Regular.ttf"

FontPaths == {FcFile(f) : f \in Families}

Whitespace == {" ", "\n", "\t"}

FcStdout(family) == {<<FcFile(family)>>, <<FcFile(family), "\n">>, <<" ", FcFile(family), "\n">>}

\* str.strip(): drop leading and trailing whitespace; here a string is the
\* sequence of its pieces and the result is the one piece left
RECURSIVE lstrip(_)
lstrip(s) ==
    IF s = <<>> THEN <<>>
    ELSE IF Head(s) \in Whitespace THEN lstrip(Tail(s)) ELSE s

RECURSIVE rstrip(_)
rstrip(s) ==
    IF s = <<>> THEN <<>>
    ELSE IF s[Len(s)] \in Whitespace THEN rstrip(SubSeq(s, 1, Len(s) - 1)) ELSE s

strip(s) ==
    IF rstrip(lstrip(s)) = <<>> THEN "" ELSE rstrip(lstrip(s))[1]

\* Path(path).exists()
PathExists(path) == path \in fontFiles

\* variant: check=False, the exit status is ignored
CheckRaisesNever(returncode) == FALSE

\* subprocess.run(..., check=True) raises CalledProcessError on a non-zero exit
CheckRaises(returncode) == returncode # 0

----------------------------------------------------------------------------
(* The specification table *)

GoldenSpec(name, text, font_size, width, height, font_path) ==
    [name |-> name, text |-> text, font_size |-> font_size,
     width |-> width, height |-> height, font_path |-> font_path,
     left |-> 10, top |-> 10]

\* lines 67-108, over the two resolved fonts
SpecTable(mono, serif) ==
    << GoldenSpec("golden_document_22px_mono", "document", 22, 250, 60, mono),
       GoldenSpec("golden_mm_22px_mono", "mm", 22, 100, 50, mono),
       GoldenSpec("golden_hello_15px_mono", "Hello, World!", 15, 200, 40, mono),
       GoldenSpec("golden_av_22px_serif", "AV", 22, 100, 50, serif),
       GoldenSpec("golden_code_15px_mono", "fn main() {", 15, 200, 40, mono) >>

\* built at import from MONO_FONT and SERIF_FONT
SPECS == SpecTable(MONO_FONT, SERIF_FONT)

\* the names of the table are literals: they do not depend on the fonts
SpecNames == {SpecTable("", "")[k].name : k \in 1..Len(SpecTable("", ""))}

\* variant: the name filters are ignored
selectIgnoringNames(all, names) == all

\* variant: all(...) in place of any(...)
selectAllOf(all, names) ==
    LET keep(s) == \A k \in 1..Len(names) : StrIn(names[k], s.name)
    IN  SelectSeq(all, keep)

\* line 151: [s for s in SPECS if any(n in s.name for n in args.names)]
selectSpecs(all, names) ==
    LET keep(s) == \E k \in 1..Len(names) : StrIn(names[k], s.name)
    IN  SelectSeq(all, keep)

----------------------------------------------------------------------------
(* Rendering *)

NoImage == [mode |-> "none"]

\* ImageFont.truetype(path, size) opens the font file and fails without it
truetypeFails(path) == ~PathExists(path)

\* Image.new("RGBA", (width, height), black), then draw.text in white
render_golden(spec) ==
    [mode |-> "RGBA",
     size |-> <<spec.width, spec.height>>,
     background |-> <<0, 0, 0, 255>>,
     text |-> spec.text,
     xy |-> <<spec.left, spec.top>>,
     font |-> <<spec.font_path, spec.font_size>>,
     fill |-> <<255, 255, 255, 255>>]

----------------------------------------------------------------------------
(* The file system *)

GOLDEN_DIR == "assets/test/golden"

TMP_DIR == "/tmp/msdf_tests"

\* GOLDEN_DIR / f"{spec.name}.png"
GoldenPath(name) == <<GOLDEN_DIR, name, ".png">>

\* Path("/tmp/msdf_tests") / f"{spec.name}_freetype.png"
TmpPath(name) == <<TMP_DIR, name, "_freetype.png">>

GoldenFiles == {GoldenPath(n) : n \in SpecNames}

TmpFiles == {TmpPath(n) : n \in SpecNames}

NoFile == [kind |-> "absent"]

\* a file opened for writing whose image has not been written out yet
Partial == [kind |-> "partial"]

PngFile(image) == [kind |-> "png", image |-> image]

\* an image left by an earlier run of another version of the table
StaleFile ==
    PngFile([mode |-> "RGBA",
             size |-> <<64, 64>>,
             background |-> <<0, 0, 0, 255>>,
             text |-> "old",
             xy |-> <<10, 10>>,
             font |-> <<"/usr/share/fonts/old.ttf", 12>>,
             fill |-> <<255, 255, 255, 255>>])

\* Path.exists()
FileExists(files, path) == files[path].kind # "absent"

\* Image.save(path), first half: the target is opened for writing, which
\* creates it or truncates what was there
save_open(files, path) == [files EXCEPT ![path] = Partial]

\* variant: the file is closed without the image having been written
save_write_nothing(files, path, image) == files

\* Image.save(path), second half: the encoded image is written and the file closed
save_write(files, path, image) == [files EXCEPT ![path] = PngFile(image)]

----------------------------------------------------------------------------
(* Initial state: the host before the script starts *)

RECURSIVE SeqsUpTo(_, _)
SeqsUpTo(S, n) ==
    IF n = 0 THEN {<<>>}
    ELSE SeqsUpTo(S, n - 1) \cup
         {Append(q, x) : q \in {r \in SeqsUpTo(S, n - 1) : Len(r) = n - 1}, x \in S}

\* the values argparse can give args.names (nargs="*")
NameLists == SeqsUpTo(FilterStrings, MaxNames)

\* the golden files found on disk before the run, as sets of spec names:
\* none, all, and two mixtures
StaleSets ==
    { {},
      SpecNames,
      {"golden_mm_22px_mono", "golden_av_22px_serif"},
      {"golden_document_22px_mono", "golden_hello_15px_mono", "golden_code_15px_mono"} }

NoArgs == [preview |-> FALSE, list |-> FALSE, names |-> <<>>]

Init ==
    /\ pc = "find_mono"
    /\ fontFiles \in SUBSET FontPaths
    /\ fcExit = [f \in Families |-> -1]
    /\ MONO_FONT = ""
    /\ SERIF_FONT = ""
    /\ stderr = <<>>
    /\ stdout = <<>>
    /\ args = NoArgs
    /\ specs = <<>>
    /\ idx = 0
    /\ img = NoImage
    /\ dirs \in SUBSET {GOLDEN_DIR, TMP_DIR}
    /\ \E stale \in StaleSets, t \in {NoFile, StaleFile} :
          /\ GOLDEN_DIR \notin dirs => stale = {}
          /\ t = StaleFile <=> TMP_DIR \in dirs
          /\ fs = [p \in GoldenFiles \cup TmpFiles |->
                      IF p \in GoldenFiles
                      THEN (IF p[2] \in stale THEN StaleFile ELSE NoFile)
                      ELSE t]
    /\ fs0 = fs
    /\ log = <<>>
    /\ loaded = <<>>
    /\ error = "none"

----------------------------------------------------------------------------
(* Import time: lines 46-50 *)

\* variant: a resolved path that does not exist is treated as fatal
FindFontStrict(family) ==
    /\ pc = (IF family = "monospace" THEN "find_mono" ELSE "find_serif")
    /\ \E returncode \in {0, 1}, out \in FcStdout(family) :
          /\ fcExit' = [fcExit EXCEPT ![family] = returncode]
          /\ IF CheckRaises(returncode) \/ ~PathExists(strip(out))
             THEN /\ error' = "CalledProcessError"
                  /\ pc' = "aborted"
                  /\ UNCHANGED <<MONO_FONT, SERIF_FONT, stderr>>
             ELSE /\ IF family = "monospace"
                     THEN MONO_FONT' = strip(out) /\ UNCHANGED SERIF_FONT
                     ELSE SERIF_FONT' = strip(out) /\ UNCHANGED MONO_FONT
                  /\ pc' = (IF family = "monospace" THEN "find_serif" ELSE "print_fonts")
                  /\ UNCHANGED <<error, stderr>>
    /\ UNCHANGED <<fontFiles, stdout, args, specs, idx, img, dirs, fs, fs0, log, loaded>>

\* find_font(family), lines 34-43, and the assignment of its result
FindFont(family) ==
    /\ pc = (IF family = "monospace" THEN "find_mono" ELSE "find_serif")
    /\ \E returncode \in {0, 1}, out \in FcStdout(family) :
          /\ fcExit' = [fcExit EXCEPT ![family] = returncode]
          /\ IF CheckRaises(returncode)
             THEN /\ error' = "CalledProcessError"
                  /\ pc' = "aborted"
                  /\ UNCHANGED <<MONO_FONT, SERIF_FONT, stderr>>
             ELSE LET path == strip(out) IN
                  /\ stderr' = IF ~PathExists(path)
                               THEN Append(stderr, [warning |-> "file doesn't exist", path |-> path])
                               ELSE stderr
                  /\ IF family = "monospace"
                     THEN MONO_FONT' = path /\ UNCHANGED SERIF_FONT
                     ELSE SERIF_FONT' = path /\ UNCHANGED MONO_FONT
                  /\ pc' = (IF family = "monospace" THEN "find_serif" ELSE "print_fonts")
                  /\ UNCHANGED error
    /\ UNCHANGED <<fontFiles, stdout, args, specs, idx, img, dirs, fs, fs0, log, loaded>>

\* lines 49-50
PrintFonts ==
    /\ pc = "print_fonts"
    /\ stdout' = stdout \o << [line |-> "Monospace font", path |-> MONO_FONT],
                              [line |-> "Serif font", path |-> SERIF_FONT] >>
    /\ pc' = "main"
    /\ UNCHANGED <<fontFiles, fcExit, MONO_FONT, SERIF_FONT, stderr, args, specs,
                   idx, img, dirs, fs, fs0, log, loaded, error>>

----------------------------------------------------------------------------
(* main(), lines 140-173 *)

\* lines 141-151: parse the command line, create GOLDEN_DIR, select the specs
MainSetup ==
    /\ pc = "main"
    /\ \E preview \in BOOLEAN, list \in BOOLEAN, names \in NameLists :
          /\ args' = [preview |-> preview, list |-> list, names |-> names]
          /\ specs' = IF names # <<>> THEN selectSpecs(SPECS, names) ELSE SPECS
          /\ pc' = IF list THEN "list" ELSE "loop"
    /\ dirs' = dirs \cup {GOLDEN_DIR}
    /\ idx' = 1
    /\ UNCHANGED <<fontFiles, fcExit, MONO_FONT, SERIF_FONT, stderr, stdout, img,
                   fs, fs0, log, loaded, error>>

\* lines 154-157: one iteration of the --list loop
ListSpec ==
    /\ pc = "list"
    /\ idx <= Len(specs)
    /\ LET spec == specs[idx]
           path == GoldenPath(spec.name)
       IN  stdout' = Append(stdout,
               [line |-> "list", name |-> spec.name, text |-> spec.text,
                font_size |-> spec.font_size, width |-> spec.width,
                height |-> spec.height,
                exists |-> IF FileExists(fs, path) THEN "exists" ELSE "missing"])
    /\ idx' = idx + 1
    /\ UNCHANGED <<pc, fontFiles, fcExit, MONO_FONT, SERIF_FONT, stderr, args, specs,
                   img, dirs, fs, fs0, log, loaded, error>>

\* variant: the --list branch does not return and falls into the generation loop
ListFallThrough ==
    /\ pc = "list"
    /\ idx > Len(specs)
    /\ pc' = "loop"
    /\ idx' = 1
    /\ UNCHANGED <<fontFiles, fcExit, MONO_FONT, SERIF_FONT, stderr, stdout, args,
                   specs, img, dirs, fs, fs0, log, loaded, error>>

\* line 158
ListReturn ==
    /\ pc = "list"
    /\ idx > Len(specs)
    /\ pc' = "done"
    /\ UNCHANGED <<fontFiles, fcExit, MONO_FONT, SERIF_FONT, stderr, stdout, args,
                   specs, idx, img, dirs, fs, fs0, log, loaded, error>>

\* variant: the golden file is opened before the font is loaded
RenderAfterOpen ==
    /\ pc = "loop"
    /\ idx <= Len(specs)
    /\ LET spec == specs[idx] IN
          /\ loaded' = Append(loaded, spec.font_path)
          /\ fs' = save_open(fs, GoldenPath(spec.name))
          /\ IF truetypeFails(spec.font_path)
             THEN /\ error' = "OSError"
                  /\ pc' = "aborted"
                  /\ UNCHANGED img
             ELSE /\ img' = render_golden(spec)
                  /\ pc' = "save"
                  /\ UNCHANGED error
    /\ UNCHANGED <<fontFiles, fcExit, MONO_FONT, SERIF_FONT, stderr, stdout, args,
                   specs, idx, dirs, fs0, log>>

\* line 161: img = render_golden(spec); the font is loaded inside (line 125)
Render ==
    /\ pc = "loop"
    /\ idx <= Len(specs)
    /\ LET spec == specs[idx] IN
          /\ loaded' = Append(loaded, spec.font_path)
          /\ IF truetypeFails(spec.font_path)
             THEN /\ error' = "OSError"
                  /\ pc' = "aborted"
                  /\ UNCHANGED img
             ELSE /\ img' = render_golden(spec)
                  /\ pc' = "save"
                  /\ UNCHANGED error
    /\ UNCHANGED <<fontFiles, fcExit, MONO_FONT, SERIF_FONT, stderr, stdout, args,
                   specs, idx, dirs, fs, fs0, log>>

\* variant: the preview flag is not honoured
AfterSaveNoPreview(a) == "loop"

\* line 166: after a golden file has been saved, the preview copy or the next spec
AfterSave(a) == IF a.preview THEN "preview" ELSE "loop"

\* variant: persist guarded by "already exists"
SaveOpenUnlessExists ==
    /\ pc = "save"
    /\ IF FileExists(fs, GoldenPath(specs[idx].name))
       THEN /\ pc' = AfterSave(args)
            /\ idx' = IF AfterSave(args) = "loop" THEN idx + 1 ELSE idx
            /\ UNCHANGED fs
       ELSE /\ fs' = save_open(fs, GoldenPath(specs[idx].name))
            /\ pc' = "saving"
            /\ UNCHANGED idx
    /\ UNCHANGED <<fontFiles, fcExit, MONO_FONT, SERIF_FONT, stderr, stdout, args,
                   specs, img, dirs, fs0, log, loaded, error>>

\* lines 162-163: img.save(path) opens the golden file for writing
SaveOpen ==
    /\ pc = "save"
    /\ fs' = save_open(fs, GoldenPath(specs[idx].name))
    /\ pc' = "saving"
    /\ UNCHANGED <<fontFiles, fcExit, MONO_FONT, SERIF_FONT, stderr, stdout, args,
                   specs, idx, img, dirs, fs0, log, loaded, error>>

\* lines 163-164: img.save(path) writes the image out and returns; the path is printed
SaveWrite ==
    /\ pc = "saving"
    /\ LET spec == specs[idx]
           path == GoldenPath(spec.name)
       IN  /\ fs' = save_write(fs, path, img)
           /\ log' = Append(log, path)
           /\ stdout' = Append(stdout, [line |-> "written", path |-> path,
                                        text |-> spec.text, font_size |-> spec.font_size])
    /\ pc' = AfterSave(args)
    /\ idx' = IF AfterSave(args) = "loop" THEN idx + 1 ELSE idx
    /\ UNCHANGED <<fontFiles, fcExit, MONO_FONT, SERIF_FONT, stderr, args, specs,
                   img, dirs, fs0, loaded, error>>

\* lines 168-170: the preview directory is created and img.save(tmp_path) opens the copy
PreviewOpen ==
    /\ pc = "preview"
    /\ dirs' = dirs \cup {TMP_DIR}
    /\ fs' = save_open(fs, TmpPath(specs[idx].name))
    /\ pc' = "previewing"
    /\ UNCHANGED <<fontFiles, fcExit, MONO_FONT, SERIF_FONT, stderr, stdout, args,
                   specs, idx, img, fs0, log, loaded, error>>

\* lines 170-171: img.save(tmp_path) writes the copy out; its path is printed
PreviewWrite ==
    /\ pc = "previewing"
    /\ LET path == TmpPath(specs[idx].name)
       IN  /\ fs' = save_write(fs, path, img)
           /\ log' = Append(log, path)
           /\ stdout' = Append(stdout, [line |-> "preview", path |-> path])
    /\ pc' = "loop"
    /\ idx' = idx + 1
    /\ UNCHANGED <<fontFiles, fcExit, MONO_FONT, SERIF_FONT, stderr, args, specs,
                   img, dirs, fs0, loaded, error>>

\* line 173: the loop is over, the count is printed
Report ==
    /\ pc = "loop"
    /\ idx > Len(specs)
    /\ stdout' = Append(stdout, [line |-> "count", count |-> Len(specs), dir |-> GOLDEN_DIR])
    /\ pc' = "done"
    /\ UNCHANGED <<fontFiles, fcExit, MONO_FONT, SERIF_FONT, stderr, args, specs,
                   idx, img, dirs, fs, fs0, log, loaded, error>>

Next ==
    \/ FindFont("monospace")
    \/ FindFont("serif")
    \/ PrintFonts
    \/ MainSetup
    \/ ListSpec
    \/ ListReturn
    \/ Render
    \/ SaveOpen
    \/ SaveWrite
    \/ PreviewOpen
    \/ PreviewWrite
    \/ Report

Spec == Init /\ [][Next]_vars

----------------------------------------------------------------------------
(* Vocabulary of the properties *)

Terminal == pc \in {"done", "aborted"}

\* main() has parsed its arguments and selected the specs
InMain == pc \in {"list", "loop", "save", "saving", "preview", "previewing", "done"}
          \/ (pc = "aborted" /\ error = "OSError")

\* a generation run (no --list) that has reached the end of main()
GenerationDone == pc = "done" /\ ~args.list

\* n occurs in name: some slice of name's characters spells n
Contains(name, n) ==
    LET c == Chars(name)
        m == Chars(n)
    IN  \E a \in 1..(Len(c) + 1) :
            /\ a + Len(m) - 1 <= Len(c)
            /\ SubSeq(c, a, a + Len(m) - 1) = m

\* the selection predicate of selectSpecs, on the command line's filters
Wanted(name, names) ==
    names = <<>> \/ \E k \in 1..Len(names) : Contains(name, names[k])

\* the image a spec asks for, field by field
IsImageOf(image, spec) ==
    /\ image.mode = "RGBA"
    /\ image.size = <<spec.width, spec.height>>
    /\ image.background = <<0, 0, 0, 255>>
    /\ image.text = spec.text
    /\ image.xy = <<spec.left, spec.top>>
    /\ image.font = <<spec.font_path, spec.font_size>>
    /\ image.fill = <<255, 255, 255, 255>>

\* the file at path holds a completely written image of spec
HoldsImageOf(path, spec) ==
    /\ fs[path].kind = "png"
    /\ IsImageOf(fs[path].image, spec)

Untouched(path) == fs[path] = fs0[path]

FontQueryFailed == \E f \in Families : fcExit[f] > 0

\* the resolved path of family f does not exist (a resolution mismatch)
Mismatched(f) == fcExit[f] = 0 /\ FcFile(f) \notin fontFiles

ResolvedFont(f) == IF f = "monospace" THEN MONO_FONT ELSE SERIF_FONT

Warned(path) == \E k \in 1..Len(stderr) : stderr[k].path = path

GoldenWritten == {p \in GoldenFiles : \E k \in 1..Len(log) : log[k] = p}

ListLines == SelectSeq(stdout, LAMBDA l : l.line = "list")

CountLines == SelectSeq(stdout, LAMBDA l : l.line = "count")

----------------------------------------------------------------------------
(* Properties *)

\* C1: if the fc-match query of either family exits non-zero, the run aborts
\* with that error before any spec is selected, rendered or persisted: no
\* image file of the golden directory or of the preview location differs
\* from what it was before the run, no font was loaded and nothing was
\* written, and the same is true of every state up to the failure.
C1_ResolutionFailureAborts ==
    /\ FontQueryFailed =>
          /\ pc = "aborted"
          /\ error = "CalledProcessError"
          /\ specs = <<>>
          /\ img = NoImage
          /\ loaded = <<>>
          /\ log = <<>>
          /\ \A p \in GoldenFiles \cup TmpFiles : Untouched(p)
          /\ ~ENABLED Next
    /\ pc \in {"find_mono", "find_serif"} =>
          /\ log = <<>>
          /\ \A p \in GoldenFiles \cup TmpFiles : Untouched(p)

C1_Witness ==
    /\ fcExit["monospace"] = 0
    /\ fcExit["serif"] = 1
    /\ pc = "aborted"
    /\ \E p \in GoldenFiles : fs0[p] = StaleFile
    /\ \E p \in GoldenFiles : fs0[p] = NoFile

\* C2: after a generation run that completed, the golden file of every
\* selected spec holds the image rendered from that spec, with dimensions
\* (spec.width, spec.height), whatever the path held before the run.
C2_PersistOverwrites ==
    GenerationDone =>
        \A k \in 1..Len(specs) :
            /\ HoldsImageOf(GoldenPath(specs[k].name), specs[k])
            /\ specs[k].name = "golden_hello_15px_mono" =>
                  fs[GoldenPath(specs[k].name)].image.size = <<200, 40>>

C2_Witness ==
    /\ GenerationDone
    /\ Len(specs) >= 2
    /\ \E k \in 1..Len(specs) : fs0[GoldenPath(specs[k].name)] = StaleFile
    /\ \E k \in 1..Len(specs) : fs0[GoldenPath(specs[k].name)] = NoFile

\* C3: the selected specs are the whole table, in table order, when no name
\* filter is given; otherwise exactly the table's specs whose name contains
\* at least one filter as a case-sensitive substring, in table order and
\* each once.  With the filter "mono" these are the four *_mono specs.
C3_SelectSpecs ==
    InMain =>
        LET table == SPECS
            names == args.names
            wanted == {t \in 1..Len(table) : Wanted(table[t].name, names)}
            at(s) == CHOOSE t \in 1..Len(table) : table[t] = s
        IN
        /\ \A k \in 1..Len(specs) :
              /\ \E t \in 1..Len(table) : specs[k] = table[t]
              /\ at(specs[k]) \in wanted
        /\ \A t \in wanted : \E k \in 1..Len(specs) : specs[k] = table[t]
        /\ \A j, k \in 1..Len(specs) : j < k => at(specs[j]) < at(specs[k])
        /\ names = <<>> => specs = table
        /\ names = <<"mono">> =>
              [k \in 1..Len(specs) |-> specs[k].name] =
                  << "golden_document_22px_mono", "golden_mm_22px_mono",
                     "golden_hello_15px_mono", "golden_code_15px_mono" >>
        /\ names = <<"Mono">> => specs = <<>>

C3_Witness ==
    /\ InMain
    /\ args.names = <<"22px", "serif">>
    /\ Len(specs) = 3

\* C4: with --preview every selected spec's golden file is written and the
\* same image is written to <preview dir>/<name>_freetype.png, the golden
\* file before its preview copy; without the flag no preview file is written.
C4_PreviewInAddition ==
    /\ (GenerationDone /\ args.preview) =>
          \A k \in 1..Len(specs) :
              /\ HoldsImageOf(GoldenPath(specs[k].name), specs[k])
              /\ fs[TmpPath(specs[k].name)] = fs[GoldenPath(specs[k].name)]
              /\ TMP_DIR \in dirs
    /\ \A j \in 1..Len(log) :
          log[j] \in TmpFiles =>
              /\ args.preview
              /\ \E i \in 1..(j - 1) : log[i] = GoldenPath(log[j][2])
    /\ ~args.preview =>
          /\ \A p \in TmpFiles : Untouched(p)
          /\ pc \notin {"preview", "previewing"}

C4_Witness ==
    /\ GenerationDone
    /\ args.preview
    /\ Len(specs) >= 2
    /\ \E k \in 1..Len(specs) : fs0[TmpPath(specs[k].name)] = StaleFile

\* C5: in a run with --preview no existing golden file is overwritten: every
\* golden file present before the run is unchanged ("Print paths only,
\* don't overwrite").
C5_PreviewDoesNotOverwrite ==
    args.preview =>
        \A p \in GoldenFiles : fs0[p] # NoFile => Untouched(p)

\* C6: in --list mode nothing is rendered or persisted: every golden and
\* preview file is as it was before the run, no font is loaded, and each
\* selected spec is reported once, in order, with "exists" exactly when its
\* golden file existed before the run.
C6_ListIsReadOnly ==
    args.list =>
        /\ \A p \in GoldenFiles \cup TmpFiles : Untouched(p)
        /\ loaded = <<>>
        /\ log = <<>>
        /\ img = NoImage
        /\ pc \in {"list", "done"}
        /\ Len(ListLines) = (IF pc = "done" THEN Len(specs) ELSE idx - 1)
        /\ \A k \in 1..Len(ListLines) :
              /\ ListLines[k].name = specs[k].name
              /\ ListLines[k].exists = "exists" <=> fs0[GoldenPath(specs[k].name)] # NoFile
              /\ ListLines[k].exists = "missing" <=> fs0[GoldenPath(specs[k].name)] = NoFile

C6_Witness ==
    /\ args.list
    /\ pc = "done"
    /\ args.names # <<>>
    /\ \E k \in 1..Len(ListLines) : ListLines[k].exists = "exists"
    /\ \E k \in 1..Len(ListLines) : ListLines[k].exists = "missing"

\* C7 as stated: in every reachable state each golden file is either
\* untouched by this run or holds a completely written image.
C7_NeverPartial ==
    \A p \in GoldenFiles : Untouched(p) \/ fs[p].kind = "png"

\* C7 as amended: each golden file is untouched by this run or holds the
\* completely written image of its spec, except the one file whose save is
\* in progress, which is partially written; once the run has ended (done or
\* aborted) no golden file is partially written.
C7_PartialOnlyWhileSaving ==
    /\ LET table == SPECS IN
       \A k \in 1..Len(table) :
          LET p == GoldenPath(table[k].name) IN
              \/ Untouched(p)
              \/ HoldsImageOf(p, table[k])
              \/ /\ pc = "saving"
                 /\ specs[idx].name = table[k].name
                 /\ fs[p] = Partial
    /\ pc = "saving" => fs[GoldenPath(specs[idx].name)] = Partial
    /\ Terminal => \A p \in GoldenFiles : fs[p] # Partial

C7_Witness ==
    /\ pc = "saving"
    /\ idx >= 2
    /\ fs[GoldenPath(specs[idx].name)] = Partial
    /\ fs0[GoldenPath(specs[idx].name)] = StaleFile
    /\ HoldsImageOf(GoldenPath(specs[1].name), specs[1])

\* C8: if loading the font fails at the k-th selected spec, the run aborts
\* there: each spec up to k had exactly one load attempt, with its own
\* font; the golden files of the selected specs before k hold their new
\* images; the files of the k-th and later selected specs are as they were
\* before the run; and nothing runs after the abort.
C8_LoadFailureAborts ==
    error = "OSError" =>
        /\ pc = "aborted"
        /\ idx \in 1..Len(specs)
        /\ ~PathExists(specs[idx].font_path)
        /\ loaded = [j \in 1..idx |-> specs[j].font_path]
        /\ \A j \in 1..(idx - 1) : HoldsImageOf(GoldenPath(specs[j].name), specs[j])
        /\ \A j \in idx..Len(specs) : Untouched(GoldenPath(specs[j].name))
        /\ ~ENABLED Next

C8_Witness ==
    /\ error = "OSError"
    /\ idx >= 3
    /\ idx < Len(specs)
    /\ fs0[GoldenPath(specs[idx].name)] = StaleFile
    /\ fs0[GoldenPath(specs[1].name)] = StaleFile

\* C9: a resolved path that does not exist is not fatal: a warning is
\* printed, the path is kept, and the run goes on unless the other query
\* fails.  A generation run then fails only by a load failure at the first
\* selected spec whose font is missing, after the specs before it were
\* written; a run none of whose selected specs uses a missing font never
\* fails, always has a next step until it is done, and ends with all its
\* files written.
C9_MismatchIsDeferred ==
    /\ \A f \in Families :
          Mismatched(f) =>
              /\ Warned(FcFile(f))
              /\ ResolvedFont(f) = FcFile(f)
              /\ error = "CalledProcessError" => \E g \in Families \ {f} : fcExit[g] > 0
    /\ error = "OSError" =>
          /\ \E f \in Families : Mismatched(f) /\ specs[idx].font_path = FcFile(f)
          /\ \A j \in 1..(idx - 1) :
                /\ PathExists(specs[j].font_path)
                /\ HoldsImageOf(GoldenPath(specs[j].name), specs[j])
    /\ (InMain /\ ~args.list /\ \A k \in 1..Len(specs) : PathExists(specs[k].font_path)) =>
          /\ error = "none"
          /\ pc # "done" => ENABLED Next
          /\ pc = "done" =>
                \A k \in 1..Len(specs) : HoldsImageOf(GoldenPath(specs[k].name), specs[k])

C9_Witness ==
    /\ GenerationDone
    /\ Mismatched("serif")
    /\ ~Mismatched("monospace")
    /\ Len(specs) = 4
    /\ \A k \in 1..Len(specs) : HoldsImageOf(GoldenPath(specs[k].name), specs[k])

\* C10: in a run with a non-empty filter list, the golden file and the
\* preview file of every spec the filters do not select stay as they were
\* before the run; and the count printed at the end of a generation run is
\* the number of selected specs, which is the number of distinct golden
\* files the run wrote.
C10_OnlySelectedTouched ==
    LET table == SPECS
        names == args.names
        unwanted == {t \in 1..Len(table) : ~Wanted(table[t].name, names)}
    IN
    /\ (InMain /\ names # <<>>) =>
          \A t \in unwanted :
              /\ Untouched(GoldenPath(table[t].name))
              /\ Untouched(TmpPath(table[t].name))
    /\ GenerationDone =>
          /\ Len(CountLines) = 1
          /\ CountLines[1].count = Len(specs)
          /\ Cardinality(GoldenWritten) = Len(specs)
          /\ Cardinality(GoldenWritten) = Len(table) - Cardinality(unwanted)

C10_Witness ==
    /\ GenerationDone
    /\ args.preview
    /\ args.names # <<>>
    /\ Len(specs) = 3
    /\ \E n \in SpecNames :
          /\ ~Wanted(n, args.names)
          /\ fs0[GoldenPath(n)] = StaleFile
          /\ fs0[TmpPath(n)] = StaleFile

====
